---- MODULE Spec2Model ----
(***************************************************************************)
(* Compatibility scoring engine (backend/compatibility/scoring.py): the    *)
(* four similarity metrics, the score combiner, the batch computation of   *)
(* COMPATIBLE_WITH edges and the ranking of a new (virtual) part.          *)
(***************************************************************************)
EXTENDS Integers, Sequences, FiniteSets, TLC

(***************************************************************************)
(* Numbers.  A Python float is modelled by the exact rational it stands    *)
(* for: <<n, d>> with d > 0, in lowest terms.                              *)
(***************************************************************************)
Abs(n) == IF n < 0 THEN -n ELSE n

RECURSIVE Gcd(_, _)
Gcd(a, b) == IF b = 0 THEN a ELSE Gcd(b, a % b)

Rat(n, d) ==
    LET s == IF d < 0 THEN -1 ELSE 1
        g == Gcd(Abs(n), Abs(d))
    IN  <<(s * n) \div g, (s * d) \div g>>

Zero == <<0, 1>>
One == <<1, 1>>
Half == <<1, 2>>

RAdd(x, y) == Rat(x[1] * y[2] + y[1] * x[2], x[2] * y[2])
RSub(x, y) == Rat(x[1] * y[2] - y[1] * x[2], x[2] * y[2])
RMul(x, y) == Rat(x[1] * y[1], x[2] * y[2])
RDiv(x, y) == Rat(x[1] * y[2], x[2] * y[1])
RLe(x, y) == x[1] * y[2] <= y[1] * x[2]
RLt(x, y) == x[1] * y[2] < y[1] * x[2]
RAbs(x) == <<Abs(x[1]), x[2]>>
\* Python's max(x, y): y only when it is strictly greater.
RMax(x, y) == IF RLt(x, y) THEN y ELSE x
InUnit(x) == RLe(Zero, x) /\ RLe(x, One)

RECURSIVE RSum(_)
RSum(xs) == IF xs = <<>> THEN Zero ELSE RAdd(Head(xs), RSum(Tail(xs)))

\* "{x:.2f}": the number in hundredths, rounded to nearest, ties to even.
Fmt2(x) ==
    LET n == x[1] * 100
        q == n \div x[2]
        r == n - q * x[2]
    IN  IF 2 * r < x[2] THEN q
        ELSE IF 2 * r > x[2] THEN q + 1
        ELSE IF q % 2 = 0 THEN q ELSE q + 1

(***************************************************************************)
(* Values of the store.  A spec value is untyped at storage level: a       *)
(* number, a text that parses as a number, any other text, or null.        *)
(* float() also accepts the infinities and nan, as floats and as texts.    *)
(***************************************************************************)
Num(n) == [k |-> "num", n |-> n, s |-> ""]
NumStr(n, s) == [k |-> "numstr", n |-> n, s |-> s]
NonFinite(s) == [k |-> "nonfinite", n |-> 0, s |-> s]
Str(s) == [k |-> "str", n |-> 0, s |-> s]
Null == [k |-> "none", n |-> 0, s |-> ""]

\* An embedding is absent (None) or a list of numbers.
NoEmbedding == [present |-> FALSE, vec |-> <<>>]
Emb(v) == [present |-> TRUE, vec |-> v]

\* A line of an explanation: the format string used and the values put in it.
Expl(kind, args) == [kind |-> kind, args |-> args]

\* The ways a Python set can be iterated: every order of its elements.
RECURSIVE Orders(_)
Orders(S) ==
    IF S = {} THEN {<<>>}
    ELSE UNION {{<<x>> \o rest : rest \in Orders(S \ {x})} : x \in S}

\* PartInfo (the name and the description take no part in scoring).
PartInfo(id, cat, asm, specs, emb) ==
    [part_id |-> id, category |-> cat, assemblies |-> asm,
     specs |-> specs, embedding |-> emb]

(***************************************************************************)
(* Scoring helpers                                                         *)
(***************************************************************************)
is_number(v) == v.k \in {"num", "numstr", "nonfinite"}

\* float(v); inf, -inf and nan are <<1, 0>>, <<-1, 0>> and <<0, 0>>.
to_float(v) ==
    IF v.k = "nonfinite"
    THEN <<IF v.s = "nan" THEN 0 ELSE IF v.s = "-inf" THEN -1 ELSE 1, 0>>
    ELSE Rat(v.n, 1)

IsFinite(x) == x[2] # 0

\* With an infinity or nan among a and b (the other not 0), rel_diff is nan
\* (inf - inf, inf / inf, or nan itself), and max(0.0, nan) is 0.0.
score_numeric(a, b) ==
    IF a = Zero /\ b = Zero THEN One
    ELSE IF a = Zero \/ b = Zero THEN Zero
    ELSE IF ~IsFinite(a) \/ ~IsFinite(b) THEN Zero
    ELSE LET rel_diff == RDiv(RAbs(RSub(a, b)), RMax(RAbs(a), RAbs(b)))
         IN  RMax(Zero, RSub(One, rel_diff))

\* One pass of the loop over the shared keys, taken in the order `keys`.
RECURSIVE MechLoop(_, _, _, _, _)
MechLoop(p1, p2, keys, scores, explanations) ==
    IF keys = <<>> THEN [scores |-> scores, explanations |-> explanations]
    ELSE
        LET key == Head(keys)
            v1 == p1.specs[key].value
            u1 == p1.specs[key].unit
            v2 == p2.specs[key].value
            u2 == p2.specs[key].unit
        IN  IF is_number(v1) /\ is_number(v2)
            THEN LET s == score_numeric(to_float(v1), to_float(v2))
                 IN  MechLoop(p1, p2, Tail(keys), Append(scores, s),
                        Append(explanations,
                            Expl("Numeric spec close",
                                 <<Str(key), v1, Str(u1), v2, Str(u2), Num(Fmt2(s))>>)))
            ELSE IF v1 = v2 /\ v1 # Null
            THEN MechLoop(p1, p2, Tail(keys), Append(scores, One),
                        Append(explanations,
                            Expl("Categorical spec matches",
                                 <<Str(key), v1, Num(Fmt2(One))>>)))
            ELSE MechLoop(p1, p2, Tail(keys), scores, explanations)

SharedKeys(p1, p2) == DOMAIN p1.specs \cap DOMAIN p2.specs

\* the loop with a key that is not comparable counted as a score of 0.0
RECURSIVE MechLoop_SkippedAsZero(_, _, _, _, _)
MechLoop_SkippedAsZero(p1, p2, keys, scores, explanations) ==
    IF keys = <<>> THEN [scores |-> scores, explanations |-> explanations]
    ELSE
        LET key == Head(keys)
            v1 == p1.specs[key].value
            v2 == p2.specs[key].value
            one == MechLoop(p1, p2, <<key>>, <<>>, <<>>)
        IN  MechLoop_SkippedAsZero(p1, p2, Tail(keys),
                scores \o (IF one.scores = <<>> THEN <<Zero>> ELSE one.scores),
                explanations \o one.explanations)

mechanical_similarity_skipped_as_zero(p1, p2, key_order) ==
    LET r == MechLoop_SkippedAsZero(p1, p2, key_order, <<>>, <<>>)
    IN  IF r.explanations = <<>>
        THEN [score |-> Zero,
              explanations |-> <<Expl("No shared specs; mechanical similarity default 0.0", <<>>)>>]
        ELSE [score |-> RDiv(RSum(r.scores), Rat(Len(r.scores), 1)),
              explanations |-> r.explanations]

\* the collected lists returned as they are, empty or not
mechanical_similarity_no_default(p1, p2, key_order) ==
    LET r == MechLoop(p1, p2, key_order, <<>>, <<>>)
    IN  [score |-> IF r.scores = <<>> THEN Zero
                   ELSE RDiv(RSum(r.scores), Rat(Len(r.scores), 1)),
         explanations |-> r.explanations]

\* key_order: the order in which the set shared_keys is iterated.
mechanical_similarity(p1, p2, key_order) ==
    LET r == MechLoop(p1, p2, key_order, <<>>, <<>>)
    IN  IF r.scores = <<>>
        THEN [score |-> Zero,
              explanations |-> <<Expl("No shared specs; mechanical similarity default 0.0", <<>>)>>]
        ELSE [score |-> RDiv(RSum(r.scores), Rat(Len(r.scores), 1)),
              explanations |-> r.explanations]

pairings ==
    { <<"Bearings", "Spindle">>, <<"Spindle", "Bearings">>,
      <<"Z Axis", "Z Axis">>, <<"X Axis", "X Axis">>,
      <<"Tailstock", "Tailstock">>, <<"Mold", "Mold">>,
      <<"Materials", "Mold">>, <<"Tools", "Mold">> }

\* equal categories scored through the table as well
functional_role_similarity_table_only(p1, p2) ==
    IF <<p1.category, p2.category>> \in pairings
    THEN [score |-> IF p1.category = p2.category THEN One ELSE Rat(8, 10),
          explanations |-> <<>>]
    ELSE [score |-> Zero, explanations |-> <<>>]

functional_role_similarity(p1, p2) ==
    IF p1.category = p2.category
    THEN [score |-> One,
          explanations |-> <<Expl("Same category", <<Str(p1.category)>>)>>]
    ELSE IF <<p1.category, p2.category>> \in pairings
    THEN [score |-> Rat(8, 10),
          explanations |->
              <<Expl("Functional pairing", <<Str(p1.category), Str(p2.category)>>)>>]
    ELSE [score |-> Zero,
          explanations |->
              <<Expl("Different categories", <<Str(p1.category), Str(p2.category)>>)>>]

Min(a, b) == IF a <= b THEN a ELSE b

\* sum(x * y for x, y in zip(e1, e2)): zip stops at the shorter list.
RECURSIVE Dot(_, _, _)
Dot(e1, e2, n) == IF n = 0 THEN 0 ELSE Dot(e1, e2, n - 1) + e1[n] * e2[n]

SumSq(e) == Dot(e, e, Len(e))

\* math.sqrt on the sums of squares the model draws, all perfect squares.
Sqrt(n) == CHOOSE r \in 0..n : r * r = n

\* missing embeddings scored 0.0 (the default of the simpler scoring variant)
semantic_similarity_default_zero(p1, p2) ==
    [score |-> Zero, explanations |-> <<>>]

\* a zero norm scored like orthogonal-free vectors: no default for it
semantic_similarity_zero_norm_zero(p1, p2) ==
    LET e1 == p1.embedding
        e2 == p2.embedding
    IN  IF ~e1.present \/ e1.vec = <<>> \/ ~e2.present \/ e2.vec = <<>>
        THEN [score |-> Half, explanations |-> <<>>]
        ELSE IF SumSq(e1.vec) = 0 \/ SumSq(e2.vec) = 0
        THEN [score |-> Zero, explanations |-> <<>>]
        ELSE [score |-> RDiv(RAdd(Rat(Dot(e1.vec, e2.vec, Min(Len(e1.vec), Len(e2.vec))),
                                      Sqrt(SumSq(e1.vec)) * Sqrt(SumSq(e2.vec))), One),
                             Rat(2, 1)),
              explanations |-> <<>>]

semantic_similarity(p1, p2) ==
    LET e1 == p1.embedding
        e2 == p2.embedding
    IN  IF ~e1.present \/ e1.vec = <<>> \/ ~e2.present \/ e2.vec = <<>>
        THEN [score |-> Half,
              explanations |-> <<Expl("Missing embeddings; semantic similarity default 0.5", <<>>)>>]
        ELSE
            LET dot == Dot(e1.vec, e2.vec, Min(Len(e1.vec), Len(e2.vec)))
                norm1 == Sqrt(SumSq(e1.vec))
                norm2 == Sqrt(SumSq(e2.vec))
            IN  IF norm1 = 0 \/ norm2 = 0
                THEN [score |-> Half,
                      explanations |-> <<Expl("Zero-length embeddings; semantic similarity default 0.5", <<>>)>>]
                ELSE LET cos == Rat(dot, norm1 * norm2)
                         score == RDiv(RAdd(cos, One), Rat(2, 1))
                     IN  [score |-> score,
                          explanations |->
                              <<Expl("Embedding cosine similarity", <<Num(Fmt2(score))>>)>>]

SharedAssemblies(p1, p2) == p1.assemblies \cap p2.assemblies

\* the share of the assemblies that the two parts have in common
hierarchy_similarity_partial(p1, p2, asm_order) ==
    IF SharedAssemblies(p1, p2) # {}
    THEN [score |-> Rat(Cardinality(SharedAssemblies(p1, p2)),
                        Cardinality(p1.assemblies \cup p2.assemblies)),
          explanations |-> <<>>]
    ELSE [score |-> Zero, explanations |-> <<>>]

\* asm_order: the order in which the set shared_assemblies is joined.
hierarchy_similarity(p1, p2, asm_order) ==
    IF SharedAssemblies(p1, p2) # {}
    THEN [score |-> One,
          explanations |->
              <<Expl("Parts share assemblies",
                     [i \in 1..Len(asm_order) |-> Str(asm_order[i])])>>]
    ELSE [score |-> Zero,
          explanations |-> <<Expl("No shared assemblies", <<>>)>>]

w_mech == Rat(35, 100)
w_func == Rat(25, 100)
w_sem == Rat(25, 100)
w_hier == Rat(15, 100)

\* the weights renormalised over the components that are not defaults
combine_scores_renormalised(mech, func, sem, hier) ==
    LET score == IF sem = Half
                 THEN RDiv(RAdd(RAdd(RMul(w_mech, mech), RMul(w_func, func)),
                                RMul(w_hier, hier)),
                           RAdd(RAdd(w_mech, w_func), w_hier))
                 ELSE RAdd(RAdd(RAdd(RMul(w_mech, mech), RMul(w_func, func)),
                                RMul(w_sem, sem)),
                           RMul(w_hier, hier))
    IN  [score |-> score, explanations |-> <<>>]

combine_scores(mech, func, sem, hier) ==
    LET score == RAdd(RAdd(RAdd(RMul(w_mech, mech), RMul(w_func, func)),
                           RMul(w_sem, sem)),
                      RMul(w_hier, hier))
    IN  [score |-> score,
         explanations |->
             <<Expl("Final score",
                    <<Num(Fmt2(score)), Num(Fmt2(mech)), Num(Fmt2(func)),
                      Num(Fmt2(sem)), Num(Fmt2(hier))>>)>>]

\* The metrics + combiner pipeline both public functions run on a pair.
ScorePair(p1, p2, key_order, asm_order) ==
    LET m == mechanical_similarity(p1, p2, key_order)
        f == functional_role_similarity(p1, p2)
        s == semantic_similarity(p1, p2)
        h == hierarchy_similarity(p1, p2, asm_order)
        c == combine_scores(m.score, f.score, s.score, h.score)
    IN  [score |-> c.score,
         mechanical |-> m.score,
         functional |-> f.score,
         semantic |-> s.score,
         hierarchy |-> h.score,
         explanations |->
             m.explanations \o f.explanations \o s.explanations
                 \o h.explanations \o c.explanations]

(***************************************************************************)
(* The store: Part nodes with their specs and embedding, BELONGS_TO and    *)
(* HAS_ASSEMBLY relationships, and the COMPATIBLE_WITH relationships.      *)
(***************************************************************************)
VARIABLES
    part_nodes,     \* part_id -> the Part node's properties and HAS_SPEC specs
    twins,          \* the part_ids that a second Part node carries as well
    belongs_to,     \* part_id -> names of the assemblies it BELONGS_TO
    has_assembly,   \* product name -> names of the assemblies it HAS_ASSEMBLY
    compat,         \* <<a, b>> -> the properties of (a)-[:COMPATIBLE_WITH]->(b)
    run,            \* the call of compute_compatibility_for_product in progress
    rival,          \* a second such call, made while the first is in progress
    request,        \* the last call of compute_compatibility_for_new_part
    ranking,        \* and the list it returned
    response,       \* the last response of api_compat_for_product
    sample,         \* a pair of parts and what the pipeline returns for it
    fsample,        \* two embeddings and what binary floating point makes of them
    msample         \* two result lists and what merge_and_trim makes of them

store == <<part_nodes, twins, belongs_to, has_assembly, compat>>
samples == <<sample, fsample, msample>>
\* what the reading calls return
answers == <<request, ranking, response>>

PartIds == {"P1", "P2", "P3"}
\* Every part_id a Part node can carry: the catalog's and the virtual part's.
NodeIds == PartIds \cup {"NEW_PART"}
Products == {"Lathe-X", "Mill-Y"}

Absent == [exists |-> FALSE, category |-> "", specs |-> <<>>, embedding |-> NoEmbedding]
Node(cat, specs, emb) ==
    [exists |-> TRUE, category |-> cat, specs |-> specs, embedding |-> emb]

Spec1(k, v, u) == (k :> [value |-> v, unit |-> u])

\* The parts the catalogs of the model are made of: node and assemblies.
Bearings16 ==
    <<Node("Bearings", Spec1("diameter", Num(16), "mm"), NoEmbedding),
      {"Spindle Assembly"}>>
Spindle16 ==
    <<Node("Spindle", Spec1("diameter", Num(16), "mm"), NoEmbedding),
      {"Spindle Assembly"}>>
SteelStock ==
    <<Node("Materials",
           Spec1("diameter", Num(8), "mm") @@ Spec1("material", Str("steel"), ""),
           Emb(<<3, 4>>)),
      {"Material Group"}>>
MoldBlock ==
    <<Node("Mold",
           Spec1("diameter", Num(-16), "mm") @@ Spec1("material", Str("steel"), ""),
           Emb(<<4, 3>>)),
      {"Mold System Assembly", "Material Group"}>>
MillCutter == <<Node("Tools", <<>>, Emb(<<0, 5>>)), {"Tooling Group"}>>
NoPart == <<Absent, {}>>

\* The catalogs: what each part_id can be.
Profiles ==
    ("P1" :> {Bearings16, SteelStock, NoPart})
        @@ ("P2" :> {Spindle16, MoldBlock})
        @@ ("P3" :> {MoldBlock, MillCutter, NoPart})

CatalogAssemblies ==
    ("Lathe-X" :> {"Spindle Assembly", "Material Group", "Mold System Assembly"})
        @@ ("Mill-Y" :> {"Tooling Group"})

(***************************************************************************)
(* Fetch helper                                                            *)
(***************************************************************************)
ProductAssemblies(product_name) ==
    IF product_name \in DOMAIN has_assembly THEN has_assembly[product_name] ELSE {}

\* the match without the product: every Part node of the store
FetchedIds_AnyProduct(product_name) == {p \in NodeIds : part_nodes[p].exists}

\* The Part nodes the query matches: one row per node, in no stated order.
FetchedIds(product_name) ==
    {p \in NodeIds :
        /\ part_nodes[p].exists
        /\ belongs_to[p] \cap ProductAssemblies(product_name) # {}}

RowPart(p) ==
    PartInfo(p, part_nodes[p].category, belongs_to[p],
             part_nodes[p].specs, part_nodes[p].embedding)

\* rows: the part ids in the order the store returns their rows.
fetch_parts_for_product(rows) == [i \in 1..Len(rows) |-> RowPart(rows[i])]

\* The query groups by Part node, so it returns one row per matched node:
\* two rows for a part_id that two nodes carry. Part nodes are merged on
\* part_id by the ingestion, and no uniqueness constraint is created.
RowNodes(product_name) ==
    {<<p, 1>> : p \in FetchedIds(product_name)}
        \cup {<<p, 2>> : p \in FetchedIds(product_name) \cap twins}

\* The row sequences the store can return, as the part_id of each row.
Rows(product_name) ==
    {[i \in 1..Len(o) |-> o[i][1]] : o \in Orders(RowNodes(product_name))}

(***************************************************************************)
(* Public API 1: compatibility among the existing parts of a product      *)
(***************************************************************************)
\* run.written lists the pairs passed to the write statement so far;
\* run.prev names the product of the call that returned just before this one.
Idle == [state |-> "idle", product |-> "", parts |-> <<>>, ids |-> <<>>,
         i |-> 0, j |-> 0, written |-> <<>>, prev |-> ""]

RECURSIVE Keys(_)
Keys(parts) ==
    IF parts = <<>> THEN <<>>
    ELSE LET rest == Keys(Tail(parts))
             id == Head(parts).part_id
         IN  IF \E n \in 1..Len(rest) : rest[n] = id
             THEN <<id>> \o SelectSeq(rest, LAMBDA x : x # id)
             ELSE <<id>> \o rest

\* part_map[id]: the last fetched part that carries the id.
PartMap(parts, id) ==
    parts[CHOOSE n \in 1..Len(parts) :
            /\ parts[n].part_id = id
            /\ \A m \in (n + 1)..Len(parts) : parts[m].part_id # id]

\* The fetch and the set-up of the loops; the first pair is (ids[1], ids[2]).
BeginRun(product_name) ==
    /\ run.state # "running"
    /\ \E rows \in Rows(product_name) :
         LET parts == fetch_parts_for_product(rows)
             ids == Keys(parts)
         IN  run' = [state |-> IF Len(ids) < 2 THEN "done" ELSE "running",
                     product |-> product_name, parts |-> parts, ids |-> ids,
                     i |-> 1, j |-> 2, written |-> <<>>,
                     prev |-> IF run.state = "done" THEN run.product ELSE ""]
    /\ UNCHANGED <<store, request, ranking, rival, response, samples>>

\* the loops left after the first part's pairs
IsLastPair_FirstRowOnly(i, j, n) == j = n

\* for i, a_id in enumerate(ids): for b_id in ids[i + 1:], on n ids.
IsLastPair(i, j, n) == i = n - 1 /\ j = n
NextI(i, j, n) == IF j = n THEN i + 1 ELSE i
NextJ(i, j, n) == IF j = n THEN i + 2 ELSE j + 1

WriteOneWay(a_id, b_id, e) ==
    IF part_nodes[a_id].exists /\ part_nodes[b_id].exists
    THEN [p \in DOMAIN compat \cup {<<a_id, b_id>>} |->
            IF p = <<a_id, b_id>> THEN e ELSE compat[p]]
    ELSE compat

\* the statement matching every Part node for b, not the one of b_id
WriteEdges_AnyPart(a_id, b_id, e) ==
    IF part_nodes[a_id].exists /\ part_nodes[b_id].exists
    THEN LET bs == {b \in NodeIds : part_nodes[b].exists}
             new == {<<a_id, b>> : b \in bs} \cup {<<b, a_id>> : b \in bs}
         IN  [p \in DOMAIN compat \cup new |-> IF p \in new THEN e ELSE compat[p]]
    ELSE compat

\* the properties set when the relationship is created, and only then
WriteEdges_OnCreate(a_id, b_id, e) ==
    IF part_nodes[a_id].exists /\ part_nodes[b_id].exists
    THEN [p \in DOMAIN compat \cup {<<a_id, b_id>>, <<b_id, a_id>>} |->
            IF p \in DOMAIN compat THEN compat[p] ELSE e]
    ELSE compat

\* the statement split in two: the edge a->b set, the edge b->a as it was
\* found unless it has to be created
WriteEdges_ReverseOnCreate(a_id, b_id, e) ==
    IF part_nodes[a_id].exists /\ part_nodes[b_id].exists
    THEN [p \in DOMAIN compat \cup {<<a_id, b_id>>, <<b_id, a_id>>} |->
            IF p = <<b_id, a_id>> /\ p \in DOMAIN compat THEN compat[p] ELSE
            IF p \in {<<a_id, b_id>>, <<b_id, a_id>>} THEN e ELSE compat[p]]
    ELSE compat

\* The MATCH ... MERGE ... SET statement: one transaction, both directions.
WriteEdges(a_id, b_id, e) ==
    IF part_nodes[a_id].exists /\ part_nodes[b_id].exists
    THEN [p \in DOMAIN compat \cup {<<a_id, b_id>>, <<b_id, a_id>>} |->
            IF p \in {<<a_id, b_id>>, <<b_id, a_id>>} THEN e ELSE compat[p]]
    ELSE compat

\* One pass of the inner loop body: score the pair (ids[i], ids[j]), write it.
WritePair ==
    /\ run.state = "running"
    /\ LET a_id == run.ids[run.i]
           b_id == run.ids[run.j]
           p1 == PartMap(run.parts, a_id)
           p2 == PartMap(run.parts, b_id)
           n == Len(run.ids)
       IN  /\ \E key_order \in Orders(SharedKeys(p1, p2)),
                asm_order \in Orders(SharedAssemblies(p1, p2)) :
                compat' = WriteEdges(a_id, b_id,
                              ScorePair(p1, p2, key_order, asm_order))
           /\ run' = [run EXCEPT
                        !.state = IF IsLastPair(run.i, run.j, n)
                                  THEN "done" ELSE "running",
                        !.i = NextI(run.i, run.j, n),
                        !.j = NextJ(run.i, run.j, n),
                        !.written = Append(run.written, <<a_id, b_id>>)]
    /\ UNCHANGED <<part_nodes, twins, belongs_to, has_assembly, request, ranking, rival, response, samples>>

\* the statement failing after its first MERGE and SET took effect
FailWrite_HalfWritten ==
    /\ run.state = "running"
    /\ LET a_id == run.ids[run.i]
           b_id == run.ids[run.j]
           p1 == PartMap(run.parts, a_id)
           p2 == PartMap(run.parts, b_id)
       IN  \E key_order \in Orders(SharedKeys(p1, p2)),
              asm_order \in Orders(SharedAssemblies(p1, p2)) :
              compat' = WriteOneWay(a_id, b_id, ScorePair(p1, p2, key_order, asm_order))
    /\ run' = [run EXCEPT !.state = "failed"]
    /\ UNCHANGED <<part_nodes, twins, belongs_to, has_assembly, request, ranking, rival, response, samples>>

\* session.run raises on the pair (ids[i], ids[j]): the statement is one
\* auto-commit transaction, so it leaves nothing behind; work() has no
\* handler and run_write none either, so the call ends with the error.
FailWrite ==
    /\ run.state = "running"
    /\ run' = [run EXCEPT !.state = "failed"]
    /\ UNCHANGED <<store, request, ranking, rival, response, samples>>

(***************************************************************************)
(* Public API 2: compatibility for a new part (not in the store)           *)
(***************************************************************************)
ASSEMBLY_MAP ==
    ("Spindle" :> "Spindle Assembly") @@ ("Bearings" :> "Spindle Assembly")
    @@ ("Z Axis" :> "Z Axis Assembly") @@ ("X Axis" :> "X Axis Assembly")
    @@ ("Tailstock" :> "Tailstock Assembly") @@ ("Mold" :> "Mold System Assembly")
    @@ ("Materials" :> "Material Group") @@ ("Tools" :> "Tooling Group")
    @@ ("Hardware" :> "Hardware Group") @@ ("Workholding" :> "Spindle Assembly")
    @@ ("Motor" :> "Spindle Assembly") @@ ("Transmission" :> "Spindle Assembly")
    @@ ("Mechanical" :> "Spindle Assembly") @@ ("Rotary Tool" :> "Tooling Group")
    @@ ("Linear Motion" :> "Axis Motion Assembly") @@ ("Frame" :> "Axis Motion Assembly")
    @@ ("Electronics" :> "Electronics Assembly")

\* The embedding capability on the descriptions the model draws: a fixed,
\* non-empty vector per text.
Descriptions == {"steel stock", "mold block", "drive belt"}

embed_text(text) ==
    CASE text = "steel stock" -> <<3, 4>>
      [] text = "mold block" -> <<4, 3>>
      [] OTHER -> <<-3, -4>>

\* the table consulted first, and the hint added to what it gives
build_virtual_part_table_first(description, category, specs, assembly_hint) ==
    LET emb == embed_text(description)
        assemblies ==
            (IF category # "" /\ category \in DOMAIN ASSEMBLY_MAP
             THEN {ASSEMBLY_MAP[category]} ELSE {})
            \cup (IF assembly_hint # "" THEN {assembly_hint} ELSE {})
    IN  PartInfo("NEW_PART", IF category # "" THEN category ELSE "Unknown",
                 assemblies, specs, Emb(emb))

\* A missing argument (None) and an empty one are both written "" / <<>>:
\* the code tests them by truth value only.
build_virtual_part(description, category, specs, assembly_hint) ==
    LET emb == embed_text(description)
        assemblies ==
            IF assembly_hint # "" THEN {assembly_hint}
            ELSE IF category # "" /\ category \in DOMAIN ASSEMBLY_MAP
            THEN {ASSEMBLY_MAP[category]}
            ELSE {}
    IN  PartInfo("NEW_PART", IF category # "" THEN category ELSE "Unknown",
                 assemblies, specs, Emb(emb))

\* results.sort(key=score, reverse=True): stable, so a record goes behind the
\* records of at least its score that came before it.
\* the record put last, whatever its score
InsertDesc_Append(sorted, r) == Append(sorted, r)

\* the record put before the records of its own score
RECURSIVE InsertDesc_BeforeEqual(_, _)
InsertDesc_BeforeEqual(sorted, r) ==
    IF sorted = <<>> THEN <<r>>
    ELSE IF RLe(Head(sorted).score, r.score) THEN <<r>> \o sorted
    ELSE <<Head(sorted)>> \o InsertDesc_BeforeEqual(Tail(sorted), r)

RECURSIVE InsertDesc(_, _)
InsertDesc(sorted, r) ==
    IF sorted = <<>> THEN <<r>>
    ELSE IF RLt(Head(sorted).score, r.score) THEN <<r>> \o sorted
    ELSE <<Head(sorted)>> \o InsertDesc(Tail(sorted), r)

RECURSIVE SortPrefix(_, _)
SortPrefix(results, n) ==
    IF n = 0 THEN <<>> ELSE InsertDesc(SortPrefix(results, n - 1), results[n])

SortDesc(results) == SortPrefix(results, Len(results))

\* results[:top_k], a negative top_k counting from the end of the list.
SliceTo(results, top_k) ==
    LET n == Len(results)
        stop == IF top_k < 0 THEN (IF n + top_k < 0 THEN 0 ELSE n + top_k)
                ELSE Min(top_k, n)
    IN  SubSeq(results, 1, stop)

\* seq without the elements outside S.
Restrict(seq, S) == SelectSeq(seq, LAMBDA x : x \in S)

\* The record appended for the existing part p.
RankRecord(new_part, p, key_order) ==
    LET shared == SharedAssemblies(new_part, p)
        \* the virtual part has one assembly at most
        asm_order == IF shared = {} THEN <<>> ELSE <<CHOOSE a \in shared : TRUE>>
        r == ScorePair(new_part, p, key_order, asm_order)
    IN  [existing_part_id |-> p.part_id,
         existing_part_category |-> p.category,
         assemblies |-> p.assemblies,
         score |-> r.score,
         mechanical |-> r.mechanical,
         functional |-> r.functional,
         semantic |-> r.semantic,
         hierarchy |-> r.hierarchy,
         explanations |-> r.explanations]

\* The arguments of a call; rows is filled in by the call with the part_id
\* of each row its fetch returned, in the order returned.
Request(product_name, description, category, specs, assembly_hint, top_k) ==
    [product_name |-> product_name, description |-> description,
     category |-> category, specs |-> specs,
     assembly_hint |-> assembly_hint, top_k |-> top_k, rows |-> <<>>]

NoRequest == Request("", "", "", <<>>, "", 0)

NewPart(req) ==
    build_virtual_part(req.description, req.category, req.specs, req.assembly_hint)

\* the call with the virtual part merged into the store
compute_compatibility_for_new_part_persisting(req) ==
    /\ request' = req
    /\ ranking' = <<>>
    /\ part_nodes' = [part_nodes EXCEPT !["NEW_PART"] =
                        Node(NewPart(req).category, req.specs, NewPart(req).embedding)]
    /\ UNCHANGED <<twins, belongs_to, has_assembly, compat, run, rival, response, samples>>

\* The whole call: fetch, build the virtual part, score, sort, truncate.
compute_compatibility_for_new_part(req) ==
    /\ \E rows \in Rows(req.product_name),
          keys \in Orders(DOMAIN req.specs) :
         LET existing_parts == fetch_parts_for_product(rows)
             new_part == NewPart(req)
             results ==
                 [n \in 1..Len(existing_parts) |->
                     RankRecord(new_part, existing_parts[n],
                         Restrict(keys, SharedKeys(new_part, existing_parts[n])))]
         IN  /\ ranking' = SliceTo(SortDesc(results), req.top_k)
             /\ request' = [req EXCEPT !.rows = rows]
    /\ UNCHANGED <<store, run, rival, response, samples>>

DefaultTopK == 10

\* The calls the store model draws: a part like the catalog's Materials
\* part, and a part of no category with a hint, for the best match only.
MainRequests ==
    { Request("Lathe-X", "steel stock", "Materials",
              Spec1("diameter", Num(8), "mm") @@ Spec1("material", Str("steel"), ""),
              "", DefaultTopK),
      Request("Lathe-X", "drive belt", "", Spec1("diameter", Num(16), "mm"),
              "Spindle Assembly", 1) }

NoSample == [scored |-> FALSE, p1 |-> <<>>, p2 |-> <<>>, key_order |-> <<>>,
             numeric |-> <<>>,
             mech |-> <<>>, func |-> <<>>, sem |-> <<>>, hier |-> <<>>,
             fwd |-> <<>>, bwd |-> <<>>]
NoFSample == [scored |-> FALSE, e1 |-> <<>>, e2 |-> <<>>,
              mechanical |-> <<0, 1>>, functional |-> <<0, 1>>, hierarchy |-> <<0, 1>>,
              semantic |-> <<0, 1>>, score |-> <<0, 1>>,
              p1 |-> <<>>, p2 |-> <<>>, keys_fwd |-> <<>>, keys_bwd |-> <<>>,
              fwd |-> <<>>, bwd |-> <<>>]

\* No call of api_compat_for_product yet.
NoResponse == [product_name |-> "", limit |-> 0, pairs |-> <<>>]
NoMSample == [merged |-> FALSE, rows_a |-> <<>>, rows_b |-> <<>>, top_k |-> 0,
              out |-> <<>>]

InitStore ==
    /\ \E f \in {g \in [PartIds -> UNION {Profiles[p] : p \in PartIds}] :
                    \A p \in PartIds : g[p] \in Profiles[p]} :
         /\ part_nodes = [p \in NodeIds |-> IF p \in PartIds THEN f[p][1] ELSE Absent]
         /\ belongs_to = [p \in NodeIds |-> IF p \in PartIds THEN f[p][2] ELSE {}]
    /\ twins = {}
    /\ has_assembly = CatalogAssemblies
    /\ compat = <<>>
    /\ run = Idle
    /\ rival = Idle
    /\ request = NoRequest
    /\ ranking = <<>>
    /\ response = NoResponse

Init ==
    /\ InitStore
    /\ sample = NoSample
    /\ fsample = NoFSample
    /\ msample = NoMSample

vars == <<part_nodes, twins, belongs_to, has_assembly, compat, run, rival,
          request, ranking, response, sample, fsample, msample>>

Next ==
    \/ \E product_name \in Products : BeginRun(product_name)
    \/ WritePair
    \/ FailWrite

Spec == Init /\ [][Next]_vars

(***************************************************************************)
(* Batch computation: the claims                                           *)
(***************************************************************************)
Fields(e) == <<e.score, e.mechanical, e.functional, e.semantic, e.hierarchy>>

\* C1: whenever an edge a->b exists, the edge b->a exists too and carries the
\* same score, sub-scores and explanations.
C1_Symmetry ==
    \A p \in DOMAIN compat :
        /\ <<p[2], p[1]>> \in DOMAIN compat
        /\ compat[<<p[2], p[1]>>] = compat[p]

\* a run over three parts has returned, all six edges written
C1_Witness ==
    /\ run.state = "done"
    /\ Len(run.ids) = 3
    /\ Cardinality(DOMAIN compat) = 6

\* C3: a run that follows a completed run for the same product, on unchanged
\* catalog data, leaves every edge with the score and the sub-scores the
\* first run wrote (the explanations go with them), whatever the order of
\* the fetched rows: no write of the second run changes them.
C3_Idempotent ==
    [][(run.state = "running" /\ run.prev = run.product)
          => \A p \in DOMAIN compat : Fields(compat'[p]) = Fields(compat[p])]_vars

\* C4: when a run has returned, every two fetched parts are joined by both
\* edges, carrying the scores computed from the fetched data, and each
\* unordered pair was written exactly once: n(n-1)/2 writes for n parts.
C4_AllPairsWritten ==
    run.state = "done" =>
        LET n == Len(run.ids)
        IN  /\ 2 * Len(run.written) = n * (n - 1)
            /\ \A i, j \in 1..n : i < j =>
                 LET a == run.ids[i]
                     b == run.ids[j]
                     p1 == PartMap(run.parts, a)
                     p2 == PartMap(run.parts, b)
                     e == ScorePair(p1, p2,
                              CHOOSE o \in Orders(SharedKeys(p1, p2)) : TRUE,
                              CHOOSE o \in Orders(SharedAssemblies(p1, p2)) : TRUE)
                 IN  /\ <<a, b>> \in DOMAIN compat
                     /\ <<b, a>> \in DOMAIN compat
                     /\ Fields(compat[<<a, b>>]) = Fields(e)
                     /\ Fields(compat[<<b, a>>]) = Fields(e)
                     /\ Cardinality({k \in 1..Len(run.written) :
                            run.written[k] \in {<<a, b>>, <<b, a>>}}) = 1

\* a run over three parts has returned
C4_Witness == run.state = "done" /\ Len(run.ids) = 3 /\ Len(run.written) = 3

\* The example of the specification: Lathe-X holds P1 (Bearings) and P2
\* (Spindle), both of diameter 16 mm, both in Spindle Assembly, no embeddings.
IsLatheExample ==
    /\ part_nodes["P1"] = Bearings16[1] /\ belongs_to["P1"] = Bearings16[2]
    /\ part_nodes["P2"] = Spindle16[1] /\ belongs_to["P2"] = Spindle16[2]
    /\ FetchedIds("Lathe-X") = {"P1", "P2"}

ExampleScores(final) ==
    (IsLatheExample /\ <<"P1", "P2">> \in DOMAIN compat) =>
        LET e == compat[<<"P1", "P2">>]
        IN  /\ e.mechanical = One
            /\ e.functional = Rat(8, 10)
            /\ e.hierarchy = One
            /\ e.semantic = Half
            /\ e.score = final

\* C5 as stated: on the example the batch computation yields mechanical 1.0,
\* functional 0.8, hierarchy 1.0, semantic 0.5 and the final score 0.675.
C5_Example == ExampleScores(Rat(675, 1000))

\* C5 as amended: the same sub-scores, and the final score
\* 0.35*1.0 + 0.25*0.8 + 0.25*0.5 + 0.15*1.0 = 0.825.
C5_ExampleAmended == ExampleScores(Rat(825, 1000))

\* the example's pair has been written
C5_Witness == IsLatheExample /\ <<"P1", "P2">> \in DOMAIN compat

\* The edges of the pair written as the k-th of the run are there, both,
\* with the scores computed from the fetched data.
PairCommitted(k) ==
    LET a == run.written[k][1]
        b == run.written[k][2]
        p1 == PartMap(run.parts, a)
        p2 == PartMap(run.parts, b)
        e == ScorePair(p1, p2,
                 CHOOSE o \in Orders(SharedKeys(p1, p2)) : TRUE,
                 CHOOSE o \in Orders(SharedAssemblies(p1, p2)) : TRUE)
    IN  /\ <<a, b>> \in DOMAIN compat
        /\ <<b, a>> \in DOMAIN compat
        /\ Fields(compat[<<a, b>>]) = Fields(e)
        /\ Fields(compat[<<b, a>>]) = Fields(e)

\* C11: when a write fails during a run, the call ends with the error and
\* nothing is retried; the pairs written before the failure keep their
\* edges, the failing statement and the pairs after it write nothing, and
\* no pair is left with one of its two edges only.
C11_FailureKeepsCommitted ==
    /\ [](run.state = "failed" =>
            /\ \A k \in 1..Len(run.written) : PairCommitted(k)
            /\ \A p \in DOMAIN compat :
                 /\ <<p[2], p[1]>> \in DOMAIN compat
                 /\ compat[<<p[2], p[1]>>] = compat[p])
    /\ [][(run.state = "running" /\ run'.state = "failed") => compat' = compat]_vars
    /\ [][run.state = "failed" =>
            /\ compat' = compat
            /\ run' = run \/ (run'.written = <<>> /\ run'.i = 1)]_vars

\* a write failed after a pair of the same run had been written
C11_Witness == run.state = "failed" /\ Len(run.written) >= 1

(***************************************************************************)
(* Ranking a new part against a store the batch computation runs on        *)
(***************************************************************************)
InitServe ==
    /\ Init
    /\ part_nodes["P1"] = SteelStock[1]
    /\ part_nodes["P2"] = MoldBlock[1]
    /\ part_nodes["P3"] \in {MillCutter[1], NoPart[1]}

NextServe ==
    \/ Next
    \/ \E req \in MainRequests : compute_compatibility_for_new_part(req)

SpecServe == InitServe /\ [][NextServe]_vars

\* C9: a call of compute_compatibility_for_new_part leaves every part, spec,
\* assembly and COMPATIBLE_WITH edge as it was, and no node with part_id
\* NEW_PART exists after it.
C9_NoWrites ==
    [][(request' # request \/ ranking' # ranking)
          => (store' = store /\ ~part_nodes'["NEW_PART"].exists)]_vars

\* a ranking was returned from a store that holds edges
C9_Witness == request # NoRequest /\ Len(ranking) > 0 /\ DOMAIN compat # {}

\* The new part of the last call is built with the category, specs,
\* assemblies and embedding of the real part x.
IsLike(x) ==
    LET v == NewPart(request)
        p == RowPart(x)
    IN  /\ v.category = p.category
        /\ v.specs = p.specs
        /\ v.assemblies = p.assemblies
        /\ v.embedding = p.embedding

\* C10: a virtual part built like the real part x gets, against every other
\* real part y, the four sub-scores and the final score that the batch
\* computation stores on the edge between x and y.
C10_SameAsBatch ==
    request # NoRequest =>
        \A x \in FetchedIds(request.product_name) :
            IsLike(x) =>
                \A k \in 1..Len(ranking) :
                    LET y == ranking[k].existing_part_id
                    IN  (y # x /\ <<x, y>> \in DOMAIN compat)
                            => Fields(ranking[k]) = Fields(compat[<<x, y>>])

(***************************************************************************)
(* Ranking alone, over the whole range of its arguments                    *)
(***************************************************************************)
TopKs == {-2, -1, 0, 1, 2, 3, DefaultTopK}

RankRequests ==
    { Request(prod, "steel stock", "", <<>>, "", k) :
        prod \in {"Lathe-X", "Atlas"}, k \in TopKs }
    \cup
    { Request(prod, "drive belt", "Mold", Spec1("diameter", Num(16), "mm"),
              "Spindle Assembly", k) :
        prod \in {"Lathe-X", "Atlas"}, k \in TopKs }

NextRank == \E req \in RankRequests : compute_compatibility_for_new_part(req)

InitRank ==
    /\ Init
    /\ part_nodes["P2"] = MoldBlock[1]

SpecRank == InitRank /\ [][NextRank]_vars

ScoreAgainst(x) ==
    LET v == NewPart(request)
        p == RowPart(x)
    IN  RankRecord(v, p, CHOOSE o \in Orders(SharedKeys(v, p)) : TRUE)

Ranked == {ranking[k].existing_part_id : k \in 1..Len(ranking)}

\* C7: the returned list is in non-increasing order of score, and it is the
\* leading part of the full ranking of the product's parts: its records are
\* those of distinct parts of the product, and no part left out scores
\* higher than a part kept.
C7_SortedPrefix ==
    request # NoRequest =>
        /\ \A k \in 1..(Len(ranking) - 1) :
             RLe(ranking[k + 1].score, ranking[k].score)
        /\ Cardinality(Ranked) = Len(ranking)
        /\ Ranked \subseteq FetchedIds(request.product_name)
        /\ \A k \in 1..Len(ranking) :
             Fields(ranking[k]) = Fields(ScoreAgainst(ranking[k].existing_part_id))
        /\ \A x \in FetchedIds(request.product_name) \ Ranked :
             \A k \in 1..Len(ranking) :
                 RLe(ScoreAgainst(x).score, ranking[k].score)

\* a list of two records of different scores, cut from three
C7_Witness ==
    /\ Len(ranking) = 2
    /\ Cardinality(FetchedIds(request.product_name)) = 3
    /\ ranking[1].score # ranking[2].score

\* C8: the list holds at most top_k records, a negative top_k allowing
\* none, and exactly min(top_k, n) of them when top_k >= 0.
C8_AtMostTopK ==
    request # NoRequest =>
        LET n == Cardinality(FetchedIds(request.product_name))
        IN  /\ Len(ranking) <= (IF request.top_k >= 0 THEN request.top_k ELSE 0)
            /\ request.top_k >= 0 => Len(ranking) = Min(request.top_k, n)

(***************************************************************************)
(* The metrics alone, on pairs of parts taken in both orders               *)
(***************************************************************************)
SA == "Spindle Assembly"
MG == "Material Group"

MetricParts ==
    { PartInfo("M1", "Bearings", {SA}, Spec1("diameter", Num(16), "mm"), NoEmbedding),
      PartInfo("M2", "Spindle", {SA, MG}, Spec1("diameter", Num(0), "mm"), Emb(<<>>)),
      PartInfo("M3", "Materials", {MG},
               Spec1("diameter", Num(8), "mm") @@ Spec1("material", Str("steel"), ""),
               Emb(<<3, 4>>)),
      PartInfo("M4", "Mold", {},
               Spec1("diameter", Num(-16), "mm") @@ Spec1("material", Str("steel"), ""),
               Emb(<<-3, -4>>)),
      PartInfo("M5", "Tools", {"Tooling Group"},
               Spec1("diameter", NumStr(16, "16"), "mm") @@ Spec1("material", Null, ""),
               Emb(<<4, 3>>)),
      PartInfo("M6", "Hardware", {SA}, <<>>, Emb(<<0, 0>>)),
      PartInfo("M7", "mold", {MG},
               Spec1("diameter", Str("n/a"), "") @@ Spec1("material", Null, ""),
               Emb(<<5>>)),
      PartInfo("M8", "Mold", {MG, SA},
               Spec1("diameter", Num(0), "mm") @@ Spec1("material", Str("alu"), ""),
               Emb(<<0, 5>>)),
      PartInfo("M9", "Materials", {MG, SA},
               Spec1("diameter", Num(16), "mm") @@ Spec1("length", Num(100), "mm"),
               Emb(<<3, 4>>)),
      PartInfo("M10", "Z Axis", {"Z Axis Assembly"},
               Spec1("length", Num(50), "mm"), Emb(<<-4, -3>>)),
      PartInfo("M11", "Z Axis", {"Z Axis Assembly"},
               Spec1("length", Num(-50), "mm") @@ Spec1("material", Str("steel"), ""),
               NoEmbedding),
      PartInfo("M12", "Hardware", {},
               Spec1("diameter", NonFinite("inf"), "mm")
                   @@ Spec1("length", NonFinite("nan"), "mm"),
               Emb(<<0, 5>>)),
      PartInfo("M13", "Tools", {},
               Spec1("diameter", Str("n/a"), "") @@ Spec1("material", Str("steel"), ""),
               NoEmbedding) }

\* The per-key score of every shared key whose two values are numbers.
NumericScores(p1, p2) ==
    [key \in {k \in SharedKeys(p1, p2) :
                 is_number(p1.specs[k].value) /\ is_number(p2.specs[k].value)} |->
        score_numeric(to_float(p1.specs[key].value), to_float(p2.specs[key].value))]

\* The four metrics and their combination for (p1, p2) and for (p2, p1).
ScoreSample ==
    LET p1 == sample.p1
        p2 == sample.p2
    IN
      \E key_order \in Orders(SharedKeys(p1, p2)),
         asm_order \in Orders(SharedAssemblies(p1, p2)) :
        /\ ~sample.scored
        /\ sample' = [scored |-> TRUE, p1 |-> p1, p2 |-> p2,
                      key_order |-> key_order,
                      numeric |-> NumericScores(p1, p2),
                      mech |-> mechanical_similarity(p1, p2, key_order),
                      func |-> functional_role_similarity(p1, p2),
                      sem |-> semantic_similarity(p1, p2),
                      hier |-> hierarchy_similarity(p1, p2, asm_order),
                      fwd |-> ScorePair(p1, p2, key_order, asm_order),
                      bwd |-> ScorePair(p2, p1, key_order, asm_order)]
        /\ UNCHANGED <<store, run, request, ranking, rival, response, fsample, msample>>

InitMetrics ==
    /\ InitStore
    /\ part_nodes["P1"] = Absent
    /\ part_nodes["P2"] = MoldBlock[1]
    /\ part_nodes["P3"] = Absent
    /\ \E p1 \in MetricParts, p2 \in MetricParts :
         sample = [NoSample EXCEPT !.p1 = p1, !.p2 = p2]
    /\ fsample = NoFSample
    /\ msample = NoMSample

SpecMetrics == InitMetrics /\ [][ScoreSample]_vars

ComplementaryPairs ==
    {{"Bearings", "Spindle"}, {"Materials", "Mold"}, {"Tools", "Mold"}}

\* C6: for parts of two different categories the functional score depends
\* on the unordered pair of categories only: 0.8 when the pair is one of the
\* complementary pairs, 0.0 otherwise, whichever part comes first.
C6_UnorderedPair ==
    (sample.scored /\ sample.p1.category # sample.p2.category) =>
        LET expected == IF {sample.p1.category, sample.p2.category}
                              \in ComplementaryPairs
                        THEN Rat(8, 10) ELSE Zero
        IN  /\ sample.fwd.functional = expected
            /\ sample.bwd.functional = expected

(***************************************************************************)
(* Binary floating point.  Python's float keeps 53 significant bits and    *)
(* rounds every operation to the nearest value, ties to even.  The model   *)
(* keeps MantBits significant bits and rounds in the same way; the inputs  *)
(* below are those on which the signs of the results are the signs that    *)
(* 53 bits give.                                                           *)
(***************************************************************************)
MantBits == 9

RECURSIVE Pow2(_)
Pow2(k) == IF k = 0 THEN 1 ELSE 2 * Pow2(k - 1)

\* number of binary digits of n >= 0
RECURSIVE Bits(_)
Bits(n) == IF n = 0 THEN 0 ELSE 1 + Bits(n \div 2)

\* A float is <<m, e>>, the value m * 2^e, with m = 0 or
\* 2^(MantBits-1) <= |m| < 2^MantBits.
\* The float nearest to a value in [m, m+1) * 2^e, m > 0, ties to even;
\* sticky says that the value is above m * 2^e.
RoundPos(m, e, sticky) ==
    LET s == Bits(m) - MantBits
    IN  IF s <= 0 THEN <<m * Pow2(-s), e + s>>
        ELSE LET q == m \div Pow2(s)
                 r == m % Pow2(s)
                 up == \/ r > Pow2(s - 1)
                       \/ r = Pow2(s - 1) /\ (sticky \/ q % 2 = 1)
             IN  IF up /\ q + 1 = Pow2(MantBits) THEN <<Pow2(MantBits - 1), e + s + 1>>
                 ELSE <<IF up THEN q + 1 ELSE q, e + s>>

\* the same for a value of either sign, n its integer part towards zero
FlRound(n, e, sticky) ==
    IF n = 0 THEN <<0, 0>>
    ELSE IF n < 0
         THEN CHOOSE r \in {<<-p[1], p[2]>> : p \in {RoundPos(-n, e, sticky)}} : TRUE
         ELSE RoundPos(n, e, sticky)

\* float(n) of an integer n
FlInt(n) == FlRound(n, 0, FALSE)

\* the exact value of a float, a fraction
FlValue(x) ==
    IF x[2] >= 0 THEN Rat(x[1] * Pow2(x[2]), 1) ELSE Rat(x[1], Pow2(-x[2]))

\* x + y of floats a and b, both nonzero
AddValues(a, b) ==
    IF a[2] <= b[2] THEN FlRound(a[1] + b[1] * Pow2(b[2] - a[2]), a[2], FALSE)
    ELSE FlRound(a[1] * Pow2(a[2] - b[2]) + b[1], b[2], FALSE)

\* x / y of floats a and b, b nonzero: quotient and remainder of the
\* mantissas, the dividend extended by MantBits + 2 digits
DivValues(a, b) ==
    LET k == MantBits + 2
        n == Abs(a[1]) * Pow2(k)
        q == n \div Abs(b[1])
        neg == (a[1] < 0) # (b[1] < 0)
    IN  FlRound(IF neg THEN -q ELSE q, a[2] - b[2] - k, n % Abs(b[1]) # 0)

\* Each operation evaluates its operands once and rounds the exact result.
FlAdd(x, y) ==
    CHOOSE r \in {IF a[1] = 0 THEN b ELSE IF b[1] = 0 THEN a ELSE AddValues(a, b) :
                    a \in {x}, b \in {y}} : TRUE
FlMul(x, y) ==
    CHOOSE r \in {FlRound(a[1] * b[1], a[2] + b[2], FALSE) : a \in {x}, b \in {y}} : TRUE
FlDiv(x, y) ==
    CHOOSE r \in {DivValues(a, b) : a \in {x}, b \in {y}} : TRUE

\* the largest r in lo..hi with r * r <= n
RECURSIVE SqrtFloor(_, _, _)
SqrtFloor(n, lo, hi) ==
    IF lo = hi THEN lo
    ELSE IF ((lo + hi + 1) \div 2) * ((lo + hi + 1) \div 2) <= n
         THEN SqrtFloor(n, (lo + hi + 1) \div 2, hi)
         ELSE SqrtFloor(n, lo, (lo + hi + 1) \div 2 - 1)

\* the square root of the float a > 0: the mantissa extended to an even
\* exponent and more than twice MantBits digits
SqrtValue(a) ==
    LET k == IF (a[2] - (MantBits + 3)) % 2 = 0 THEN MantBits + 3 ELSE MantBits + 4
        n == a[1] * Pow2(k)
    IN  CHOOSE f \in {FlRound(r, (a[2] - k) \div 2, r * r # n) :
                        r \in {SqrtFloor(n, 0, Pow2(MantBits + 4))}} : TRUE

\* math.sqrt
FlSqrt(x) == CHOOSE r \in {IF a[1] = 0 THEN a ELSE SqrtValue(a) : a \in {x}} : TRUE

\* sum(float(a) * float(b) for a, b in zip(e1, e2)) over the first n pairs
RECURSIVE FlDot(_, _, _)
FlDot(e1, e2, n) ==
    IF n = 0 THEN FlInt(0)
    ELSE FlAdd(FlDot(e1, e2, n - 1), FlMul(FlInt(e1[n]), FlInt(e2[n])))

\* (cos + 1.0) / 2.0 for the dot product and the norms, the norms nonzero
CosineScore(dot, norm1, norm2) ==
    FlDiv(FlAdd(FlDiv(dot, FlMul(norm1, norm2)), FlInt(1)), FlInt(2))

\* _semantic_similarity on the embeddings e1 and e2, in floating point.
semantic_similarity_float(e1, e2) ==
    IF Len(e1) = 0 \/ Len(e2) = 0 THEN FlDiv(FlInt(1), FlInt(2))
    ELSE CHOOSE r \in
           { IF n[1][1] = 0 \/ n[2][1] = 0 THEN FlDiv(FlInt(1), FlInt(2))
             ELSE CosineScore(FlDot(e1, e2, Min(Len(e1), Len(e2))), n[1], n[2]) :
               n \in {<<FlSqrt(FlDot(e1, e1, Len(e1))), FlSqrt(FlDot(e2, e2, Len(e2)))>>}
           } : TRUE

\* the float of a decimal literal n/d
FlLiteral(x) == FlDiv(FlInt(x[1]), FlInt(x[2]))

\* _combine_scores, in floating point.
combine_scores_float(mech, func, sem, hier) ==
    FlAdd(FlAdd(FlAdd(FlMul(FlLiteral(w_mech), mech), FlMul(FlLiteral(w_func), func)),
                FlMul(FlLiteral(w_sem), sem)),
          FlMul(FlLiteral(w_hier), hier))

UnitVecs == UNION {[1..n -> {-1, 1}] : n \in 1..3}

FloatVecs ==
    UnitVecs \cup {<<2, 2, 2>>, <<-2, -2, -2>>, <<0, 0, 0>>, <<1, 2, 2>>,
                   <<-1, -2, -2>>, <<3, 4>>, <<-3, -4>>}

\* values of the mechanical, functional and hierarchy metrics
OtherMetrics ==
    { <<Zero, Zero, Zero>>, <<One, One, One>>, <<Half, Rat(8, 10), One>>,
      <<One, Half, Zero>> }

ScoreFloat ==
    /\ ~fsample.scored
    /\ \E sem \in {semantic_similarity_float(fsample.e1, fsample.e2)} :
         fsample' = [fsample EXCEPT
                        !.scored = TRUE,
                        !.semantic = FlValue(sem),
                        !.score = FlValue(combine_scores_float(
                                      FlLiteral(fsample.mechanical),
                                      FlLiteral(fsample.functional),
                                      sem,
                                      FlLiteral(fsample.hierarchy)))]
    /\ UNCHANGED <<store, run, request, ranking, rival, response, sample, msample>>

InitFloat ==
    /\ InitStore
    /\ part_nodes["P1"] = Absent
    /\ part_nodes["P2"] = MoldBlock[1]
    /\ part_nodes["P3"] = Absent
    /\ sample = NoSample
    /\ msample = NoMSample
    /\ \E e1 \in FloatVecs, e2 \in FloatVecs, o \in OtherMetrics :
         fsample = [NoFSample EXCEPT !.e1 = e1, !.e2 = e2,
                       !.mechanical = o[1], !.functional = o[2], !.hierarchy = o[3]]

SpecFloat == InitFloat /\ [][ScoreFloat]_vars

\* C2: the semantic sub-score and the final score that the code returns lie
\* in the closed interval [0, 1].
C2_UnitInterval ==
    fsample.scored => (InUnit(fsample.semantic) /\ InUnit(fsample.score))

(***************************************************************************)
(* The metrics and the combiner: the claims                                *)
(***************************************************************************)
\* C12: the combined score is 0.35*mechanical + 0.25*functional +
\* 0.25*semantic + 0.15*hierarchy, the weights sum to 1, and a component
\* that is a missing-data default is weighted like any other: the defaults
\* 0, 0, 0.5 and 0 give 0.125.
C12_WeightedSum ==
    /\ RAdd(RAdd(w_mech, w_func), RAdd(w_sem, w_hier)) = One
    /\ sample.scored =>
         LET r == sample.fwd
             total == 35 * r.mechanical[1] * r.functional[2] * r.semantic[2] * r.hierarchy[2]
                    + 25 * r.functional[1] * r.mechanical[2] * r.semantic[2] * r.hierarchy[2]
                    + 25 * r.semantic[1] * r.mechanical[2] * r.functional[2] * r.hierarchy[2]
                    + 15 * r.hierarchy[1] * r.mechanical[2] * r.functional[2] * r.semantic[2]
         IN  /\ r.score = Rat(total, 100 * r.mechanical[2] * r.functional[2]
                                         * r.semantic[2] * r.hierarchy[2])
             /\ (r.mechanical = Zero /\ r.functional = Zero /\ r.semantic = Half
                    /\ r.hierarchy = Zero) => r.score = Rat(125, 1000)

\* a pair scored on defaults only
C12_Witness ==
    /\ sample.scored
    /\ sample.fwd.mechanical = Zero /\ sample.fwd.functional = Zero
    /\ sample.fwd.semantic = Half /\ sample.fwd.hierarchy = Zero
    /\ sample.fwd.score = Rat(1, 8)

\* The loop over the shared keys scores this key: both values are numbers,
\* or they are equal and not null.
Comparable(p1, p2, key) ==
    LET v1 == p1.specs[key].value
        v2 == p2.specs[key].value
    IN  (v1.k \in {"num", "numstr", "nonfinite"} /\ v2.k \in {"num", "numstr", "nonfinite"})
        \/ (v1 = v2 /\ v1.k # "none")

NoComparableKey(p1, p2) ==
    \A key \in DOMAIN p1.specs \cap DOMAIN p2.specs : ~Comparable(p1, p2, key)

\* C13: two parts without a shared spec key get mechanical 0.0 and exactly
\* one explanation, the one that flags the absence of shared specs; so do
\* two parts whose shared keys are all skipped.
C13_MechanicalDefault ==
    (sample.scored /\ NoComparableKey(sample.p1, sample.p2)) =>
        /\ sample.mech.score = Zero
        /\ Len(sample.mech.explanations) = 1
        /\ sample.mech.explanations[1].kind
               = "No shared specs; mechanical similarity default 0.0"
        /\ sample.fwd.mechanical = Zero

\* two shared keys, both skipped
C13_Witness ==
    /\ sample.scored
    /\ Cardinality(DOMAIN sample.p1.specs \cap DOMAIN sample.p2.specs) = 2
    /\ NoComparableKey(sample.p1, sample.p2)
    /\ sample.mech.score = Zero

\* The embedding is absent, empty, or of norm zero.
NoDirection(emb) ==
    ~emb.present \/ emb.vec = <<>> \/ \A i \in 1..Len(emb.vec) : emb.vec[i] = 0

\* C14: the semantic score is exactly 0.5 whenever the embedding of either
\* part is absent, empty or of norm zero.
C14_SemanticDefault ==
    (sample.scored /\ (NoDirection(sample.p1.embedding)
                         \/ NoDirection(sample.p2.embedding))) =>
        (sample.sem.score = Half /\ sample.fwd.semantic = Half)

\* a zero vector against a vector that has a direction
C14_Witness ==
    /\ sample.scored
    /\ sample.p1.embedding.present /\ sample.p1.embedding.vec = <<0, 0>>
    /\ ~NoDirection(sample.p2.embedding)
    /\ sample.sem.score = Half

\* C15: the hierarchy score is 1.0 when the two parts share at least one
\* assembly name, however many, and 0.0 otherwise; it takes no other value.
C15_HierarchyBinary ==
    sample.scored =>
        /\ sample.hier.score =
               IF sample.p1.assemblies \cap sample.p2.assemblies # {} THEN One ELSE Zero
        /\ sample.fwd.hierarchy = sample.hier.score

\* a partial overlap: one assembly shared out of two
C15_Witness ==
    /\ sample.scored
    /\ Cardinality(sample.p1.assemblies \cap sample.p2.assemblies) = 1
    /\ Cardinality(sample.p1.assemblies \cup sample.p2.assemblies) = 2
    /\ sample.hier.score = One

\* C16: two parts of the same category string score 1.0, whether the
\* pairing table names the category or not; two parts of different
\* categories score 0.8 or 0.0.
C16_SameCategory ==
    sample.scored =>
        /\ sample.p1.category = sample.p2.category => sample.func.score = One
        /\ sample.p1.category # sample.p2.category
               => sample.func.score \in {Rat(8, 10), Zero}
        /\ sample.fwd.functional = sample.func.score

\* the same category, one the table does not name
C16_Witness ==
    /\ sample.scored
    /\ sample.p1.category = "Materials" /\ sample.p2.category = "Materials"
    /\ sample.p1.part_id # sample.p2.part_id
    /\ sample.func.score = One

(***************************************************************************)
(* Products without parts                                                  *)
(***************************************************************************)
\* A product the store does not hold, next to the catalog's products.
AnyProducts == Products \cup {"Atlas"}

EmptyRequests ==
    { Request(prod, "drive belt", "Mold", Spec1("diameter", Num(16), "mm"),
              "Spindle Assembly", DefaultTopK) : prod \in AnyProducts }

NextEmpty ==
    \/ \E product_name \in AnyProducts : BeginRun(product_name)
    \/ WritePair
    \/ FailWrite
    \/ \E req \in EmptyRequests : compute_compatibility_for_new_part(req)

SpecEmpty == InitServe /\ [][NextEmpty]_vars

\* No Part node is linked to an assembly of the product.
NoParts(product_name) ==
    \A p \in NodeIds :
        part_nodes[p].exists =>
            \A a \in belongs_to[p] :
                ~(product_name \in DOMAIN has_assembly /\ a \in has_assembly[product_name])

\* C17: for a product with no parts, or one the store does not hold, the
\* ranking of a new part returns the empty list as its result, and a batch
\* run ends at once without writing an edge.
C17_NoParts ==
    /\ []((request # NoRequest /\ NoParts(request.product_name)) => ranking = <<>>)
    /\ [][(request' # request /\ NoParts(request'.product_name))
            => (ranking' = <<>> /\ store' = store /\ run' = run)]_vars
    /\ [][(run' # run /\ NoParts(run'.product))
            => /\ compat' = compat
               /\ run'.state = "done"
               /\ run'.written = <<>>]_vars

\* after a run that wrote edges: a run of a product without parts has
\* ended, and the ranking for an unknown product came back empty
C17_Witness ==
    /\ DOMAIN compat # {}
    /\ run.state = "done" /\ run.product = "Mill-Y" /\ NoParts("Mill-Y")
    /\ request # NoRequest /\ request.product_name = "Atlas" /\ ranking = <<>>

(***************************************************************************)
(* Which pairs carry an edge                                               *)
(***************************************************************************)
\* The parts a run of the product fetches; no action of Spec changes them.
FetchedTogether(a, b) ==
    \E product_name \in Products : {a, b} \subseteq FetchedIds(product_name)

\* C18: from a store without edges, whatever batch runs are made, an edge
\* a->b exists only between two distinct parts fetched by one same run; a
\* step creates edges for the pair it computes and for no other pair, and no
\* part gets an edge to itself.
C18_OnlyComputedPairs ==
    /\ [](\A p \in DOMAIN compat : p[1] # p[2] /\ FetchedTogether(p[1], p[2]))
    /\ [][\A p \in DOMAIN compat' \ DOMAIN compat :
            /\ run.state = "running"
            /\ p \in {<<run.ids[run.i], run.ids[run.j]>>,
                      <<run.ids[run.j], run.ids[run.i]>>}
            /\ {p[1], p[2]} \subseteq {run.parts[n].part_id : n \in 1..Len(run.parts)}]_vars

\* both products were run to the end; P1 and P3 are parts of different
\* products, and only the computed pair of P1 and P2 carries edges
C18_Witness ==
    /\ run.state = "done" /\ run.product = "Mill-Y" /\ run.prev = "Lathe-X"
    /\ part_nodes["P1"].exists /\ part_nodes["P3"].exists
    /\ "P3" \in FetchedIds("Mill-Y")
    /\ DOMAIN compat = {<<"P1", "P2">>, <<"P2", "P1">>}

(***************************************************************************)
(* Stores in which a part_id is carried by two Part nodes                  *)
(***************************************************************************)
InitFetch ==
    /\ part_nodes = [p \in NodeIds |->
                       IF p = "P1" THEN SteelStock[1]
                       ELSE IF p = "P2" THEN MoldBlock[1] ELSE Absent]
    /\ belongs_to = [p \in NodeIds |->
                       IF p = "P1" THEN SteelStock[2]
                       ELSE IF p = "P2" THEN MoldBlock[2] ELSE {}]
    /\ twins \in {{}, {"P1"}, {"P2"}}
    /\ has_assembly = CatalogAssemblies
    /\ compat = <<>>
    /\ run = Idle
    /\ rival = Idle
    /\ request = NoRequest
    /\ ranking = <<>>
    /\ response = NoResponse
    /\ sample = NoSample
    /\ fsample = NoFSample
    /\ msample = NoMSample

SpecFetch == InitFetch /\ [][NextServe]_vars

\* C19: the list the fetch returns holds each part_id at most once, whatever
\* rows the store returns, two rows of one part_id included; so the ranking
\* of a new part holds no existing part twice.
C19_FetchDistinct ==
    /\ run.state # "idle" =>
         \A m, n \in 1..Len(run.parts) :
             run.parts[m].part_id = run.parts[n].part_id => m = n
    /\ request # NoRequest => Cardinality(Ranked) = Len(ranking)

(***************************************************************************)
(* The per-key score of two numbers                                        *)
(***************************************************************************)
\* The score the formula gives to two finite numbers.
RelativeCloseness(a, b) ==
    IF a = Zero /\ b = Zero THEN One
    ELSE IF a = Zero \/ b = Zero THEN Zero
    ELSE RMax(Zero, RSub(One, RDiv(RAbs(RSub(a, b)), RMax(RAbs(a), RAbs(b)))))

\* The parsed value is nan, the one float that is not equal to itself.
IsNaN(x) == x[1] = 0 /\ x[2] = 0

\* C20: for a shared key whose two values parse as numbers a and b the
\* per-key score is 1 when a = b = 0, 0 when exactly one of them is 0, and
\* max(0, 1 - |a-b| / max(|a|,|b|)) otherwise; equal values score 1 and
\* values of opposite sign score 0.
C20_NumericScore ==
    sample.scored =>
        \A key \in DOMAIN sample.numeric :
            LET a == to_float(sample.p1.specs[key].value)
                b == to_float(sample.p2.specs[key].value)
                s == sample.numeric[key]
            IN  /\ (IsFinite(a) /\ IsFinite(b)) => s = RelativeCloseness(a, b)
                /\ (a = b /\ ~IsNaN(a)) => s = One
                /\ (a[1] * b[1] < 0) => s = Zero

(***************************************************************************)
(* The mean over the scored keys                                           *)
(***************************************************************************)
\* The shared keys the loop scores; the others are skipped.
ScoredKeys(p1, p2) == {key \in SharedKeys(p1, p2) : Comparable(p1, p2, key)}

\* What a scored key contributes: its numeric score, or 1.0 for two equal
\* raw values.
KeyScore(key) ==
    IF key \in DOMAIN sample.numeric THEN sample.numeric[key] ELSE One

RECURSIVE SumKeyScores(_)
SumKeyScores(keys) ==
    IF keys = {} THEN Zero
    ELSE LET key == CHOOSE k \in keys : TRUE
         IN  RAdd(KeyScore(key), SumKeyScores(keys \ {key}))

\* C21: mechanical similarity is the arithmetic mean of the per-key scores
\* over the scored keys only; a shared key whose values are not both numbers
\* contributes 1.0 when the raw values are equal and not null, and is left
\* out of the mean otherwise, also when exactly one value is a number.
C21_MeanOfScoredKeys ==
    (sample.scored /\ ScoredKeys(sample.p1, sample.p2) # {}) =>
        LET keys == ScoredKeys(sample.p1, sample.p2)
        IN  /\ sample.mech.score =
                   RDiv(SumKeyScores(keys), Rat(Cardinality(keys), 1))
            /\ Len(sample.mech.explanations) = Cardinality(keys)
            /\ sample.fwd.mechanical = sample.mech.score

\* diameter 8 against "n/a" is skipped, material steel against steel is 1.0
C21_Witness ==
    /\ sample.scored
    /\ sample.p1.part_id = "M3" /\ sample.p2.part_id = "M13"
    /\ ScoredKeys(sample.p1, sample.p2) = {"material"}
    /\ sample.mech.score = One

(***************************************************************************)
(* The virtual part's assemblies                                           *)
(***************************************************************************)
\* Categories with and without an entry in the table, and none at all;
\* hints given and not given.
VirtualCategories == {"", "Mold", "Materials", "Gizmo"}
VirtualHints == {"", "Spindle Assembly", "Material Group"}

VirtualRequests ==
    { Request("Lathe-X", "drive belt", cat, <<>>, hint, DefaultTopK) :
        cat \in VirtualCategories, hint \in VirtualHints }

NextVirtual == \E req \in VirtualRequests : compute_compatibility_for_new_part(req)

SpecVirtual == InitRank /\ [][NextVirtual]_vars

\* The assemblies the rule gives to the virtual part of the last call.
HintOrTable ==
    IF request.assembly_hint # "" THEN {request.assembly_hint}
    ELSE IF request.category = "Mold" THEN {"Mold System Assembly"}
    ELSE IF request.category = "Materials" THEN {"Material Group"}
    ELSE {}

\* C22: the virtual part's assemblies are the hint alone when a hint is
\* given, whatever the category; else the table's assembly of the category
\* when the table has the category; else none. They are never more than one,
\* and the part_id is NEW_PART. The hierarchy score of every record follows.
C22_VirtualAssemblies ==
    request # NoRequest =>
        LET v == NewPart(request)
        IN  /\ v.assemblies = HintOrTable
            /\ Cardinality(v.assemblies) <= 1
            /\ v.part_id = "NEW_PART"
            /\ \A k \in 1..Len(ranking) :
                 ranking[k].hierarchy =
                      IF HintOrTable \cap belongs_to[ranking[k].existing_part_id] # {}
                      THEN One ELSE Zero

\* a hint next to a category of the table: the mold part of the store is in
\* the category's assembly and not in the hinted one
C22_Witness ==
    /\ request # NoRequest
    /\ request.category = "Mold" /\ request.assembly_hint = "Spindle Assembly"
    /\ \E k \in 1..Len(ranking) :
         /\ ranking[k].existing_part_id = "P2"
         /\ "Mold System Assembly" \in belongs_to["P2"]
         /\ ranking[k].hierarchy = Zero

(***************************************************************************)
(* Ingestion of a YAML product file                                        *)
(***************************************************************************)
\* A part of a file; category "" stands for a part without the key, specs
\* are keyed by their key, children are the nested parts.
FilePart(id, cat, desc, specs, children) ==
    [part_id |-> id, category |-> cat, description |-> desc, specs |-> specs,
     children |-> children]

File(product_name, parts) == [product |-> product_name, parts |-> parts]

\* part.get("category", "Uncategorized")
CategoryOf(part) == IF part.category = "" THEN "Uncategorized" ELSE part.category

\* The HAS_SPEC links of a part after _upsert_spec of each spec of the file,
\* as the fetch reads them into its dict. A link made earlier is never
\* removed: for a key that had another value the part has two links, and the
\* dict keeps the one collect() lists last; stale tells whether that is the
\* earlier one.
UpsertSpecs(old, new, stale) == IF stale THEN old @@ new ELSE new @@ old

\* _ensure_assembly and the BELONGS_TO merge: Assembly nodes are merged on
\* their name alone.
EnsureAssembly(has, product_name, assembly_name) ==
    [p \in DOMAIN has \cup {product_name} |->
        (IF p \in DOMAIN has THEN has[p] ELSE {})
            \cup (IF p = product_name THEN {assembly_name} ELSE {})]

RECURSIVE UpsertPart(_, _, _, _), UpsertParts(_, _, _, _)
\* st: the store as [part_nodes, belongs_to, has_assembly].
UpsertPart(st, product_name, part, stale) ==
    LET id == part.part_id
        category == CategoryOf(part)
        old == st.part_nodes[id]
        node == Node(category,
                     UpsertSpecs(IF old.exists THEN old.specs ELSE <<>>,
                                 part.specs, id \in stale),
                     Emb(embed_text(part.description)))
        mapped == category \in DOMAIN ASSEMBLY_MAP
        st1 == [part_nodes |-> [st.part_nodes EXCEPT ![id] = node],
                belongs_to |->
                    IF mapped
                    THEN [st.belongs_to EXCEPT ![id] = @ \cup {ASSEMBLY_MAP[category]}]
                    ELSE st.belongs_to,
                has_assembly |->
                    IF mapped
                    THEN EnsureAssembly(st.has_assembly, product_name,
                                        ASSEMBLY_MAP[category])
                    ELSE st.has_assembly]
    IN  UpsertParts(st1, product_name, part.children, stale)

UpsertParts(st, product_name, parts, stale) ==
    IF parts = <<>> THEN st
    ELSE UpsertParts(UpsertPart(st, product_name, Head(parts), stale),
                     product_name, Tail(parts), stale)

\* The part_ids of a file, nested ones included.
RECURSIVE FileIds(_)
FileIds(parts) ==
    IF parts = <<>> THEN {}
    ELSE {Head(parts).part_id} \cup FileIds(Head(parts).children)
             \cup FileIds(Tail(parts))

\* The whole of ingest_yaml_file: the Product merge, then every part.
ingest_yaml_file(file) ==
    /\ \E stale \in SUBSET FileIds(file.parts) :
         LET st0 == [part_nodes |-> part_nodes, belongs_to |-> belongs_to,
                     has_assembly |->
                         [p \in DOMAIN has_assembly \cup {file.product} |->
                             IF p \in DOMAIN has_assembly
                             THEN has_assembly[p] ELSE {}]]
             st == UpsertParts(st0, file.product, file.parts, stale)
         IN  /\ part_nodes' = st.part_nodes
             /\ belongs_to' = st.belongs_to
             /\ has_assembly' = st.has_assembly
    /\ UNCHANGED <<twins, compat, run, rival, answers, samples>>

\* The files of the model. Lathe-X: a Materials part with a nested Mold
\* part; the same part_ids again with other categories, one of them missing,
\* and another diameter. Mill-Y: one part, of a category whose assembly the
\* table shares with Bearings.
LatheFile1 ==
    File("Lathe-X",
         <<FilePart("P1", "Materials", "steel stock",
                    Spec1("diameter", Num(8), "mm") @@ Spec1("material", Str("steel"), ""),
                    <<FilePart("P2", "Mold", "mold block",
                               Spec1("diameter", Num(-16), "mm"), <<>>)>>)>>)
LatheFile2 ==
    File("Lathe-X",
         <<FilePart("P1", "Bearings", "drive belt",
                    Spec1("diameter", Num(16), "mm"), <<>>),
           FilePart("P2", "", "steel stock",
                    Spec1("material", Str("steel"), ""), <<>>)>>)
MillFile ==
    File("Mill-Y",
         <<FilePart("P3", "Spindle", "mold block",
                    Spec1("diameter", Num(16), "mm"), <<>>)>>)

\* The file was ingested before: BELONGS_TO links are never removed, and each
\* file of the model links a part of its own to an assembly of its own.
AlreadyIngested(file) ==
    LET part == file.parts[1]
    IN  ASSEMBLY_MAP[part.category] \in belongs_to[part.part_id]

\* An empty store.
InitIngest ==
    /\ part_nodes = [p \in NodeIds |-> Absent]
    /\ twins = {}
    /\ belongs_to = [p \in NodeIds |-> {}]
    /\ has_assembly = <<>>
    /\ compat = <<>>
    /\ run = Idle
    /\ rival = Idle
    /\ request = NoRequest
    /\ ranking = <<>>
    /\ response = NoResponse
    /\ sample = NoSample
    /\ fsample = NoFSample
    /\ msample = NoMSample

\* Each file is ingested once, between the batch runs and not during one.
IngestOnce(files) ==
    \E file \in files :
        /\ run.state # "running"
        /\ ~AlreadyIngested(file)
        /\ ingest_yaml_file(file)

\* The product's file, and the same parts again with changed data.
NextReingest ==
    \/ Next
    \/ IngestOnce({LatheFile1, LatheFile2})

SpecReingest == InitIngest /\ [][NextReingest]_vars

EdgeFields == {"score", "mechanical", "functional", "semantic", "hierarchy",
               "explanations"}

\* What the run computes for the pair (a, b) from the parts it fetched, for
\* every order in which the shared keys and assemblies can be iterated.
ComputedInRun(a, b) ==
    LET p1 == PartMap(run.parts, a)
        p2 == PartMap(run.parts, b)
    IN  {ScorePair(p1, p2, key_order, asm_order) :
            key_order \in Orders(SharedKeys(p1, p2)),
            asm_order \in Orders(SharedAssemblies(p1, p2))}

\* C23: when a run has returned, on catalog data changed since the run
\* before or not, each of the six fields of every edge among the fetched
\* parts holds the value this run computed: none keeps an earlier value,
\* the explanations are those of this run and no more, and the two parts
\* are joined by one edge per direction.
C23_FreshValues ==
    run.state = "done" =>
        \A k \in 1..Len(run.written) :
            LET a == run.written[k][1]
                b == run.written[k][2]
            IN  /\ {<<a, b>>, <<b, a>>} \subseteq DOMAIN compat
                /\ DOMAIN compat[<<a, b>>] = EdgeFields
                /\ compat[<<a, b>>] \in ComputedInRun(a, b)
                /\ compat[<<b, a>>] = compat[<<a, b>>]

\* a second run of the product has returned after both files were
\* ingested, the second file's data being what the run fetched
C23_Witness ==
    /\ run.state = "done" /\ run.product = "Lathe-X" /\ run.prev = "Lathe-X"
    /\ AlreadyIngested(LatheFile1) /\ AlreadyIngested(LatheFile2)
    /\ Len(run.written) = 1
    /\ PartMap(run.parts, "P1").category = "Bearings"
    /\ PartMap(run.parts, "P2").category = "Uncategorized"
    /\ compat[<<"P1", "P2">>].functional = Zero

(***************************************************************************)
(* Two calls of compute_compatibility_for_product at the same time         *)
(***************************************************************************)
\* The second call: its fetch, made once.
BeginRival(product_name) ==
    /\ rival.state = "idle"
    /\ \E rows \in Rows(product_name) :
         LET parts == fetch_parts_for_product(rows)
             ids == Keys(parts)
         IN  rival' = [state |-> IF Len(ids) < 2 THEN "done" ELSE "running",
                       product |-> product_name, parts |-> parts, ids |-> ids,
                       i |-> 1, j |-> 2, written |-> <<>>, prev |-> ""]
    /\ UNCHANGED <<store, run, answers, samples>>

\* One statement of the second call: its own transaction, like the first
\* call's.
WritePairRival ==
    /\ rival.state = "running"
    /\ LET a_id == rival.ids[rival.i]
           b_id == rival.ids[rival.j]
           p1 == PartMap(rival.parts, a_id)
           p2 == PartMap(rival.parts, b_id)
           n == Len(rival.ids)
       IN  /\ \E key_order \in Orders(SharedKeys(p1, p2)),
                asm_order \in Orders(SharedAssemblies(p1, p2)) :
                compat' = WriteEdges(a_id, b_id,
                              ScorePair(p1, p2, key_order, asm_order))
           /\ rival' = [rival EXCEPT
                          !.state = IF IsLastPair(rival.i, rival.j, n)
                                    THEN "done" ELSE "running",
                          !.i = NextI(rival.i, rival.j, n),
                          !.j = NextJ(rival.i, rival.j, n),
                          !.written = Append(rival.written, <<a_id, b_id>>)]
    /\ UNCHANGED <<part_nodes, twins, belongs_to, has_assembly, run, answers, samples>>

\* A file that adds a third part to Lathe-X.
LatheFile3 ==
    File("Lathe-X",
         <<FilePart("P3", "Tools", "drive belt",
                    Spec1("diameter", Num(16), "mm"), <<>>)>>)

\* Lathe-X with two parts.
InitConcurrent ==
    /\ Init
    /\ part_nodes["P1"] = SteelStock[1]
    /\ part_nodes["P2"] = MoldBlock[1]
    /\ part_nodes["P3"] = NoPart[1]

\* One call each, both for the same product, and one file ingested at some
\* time before, between or after their fetches.
NextConcurrent ==
    \/ run.state = "idle" /\ BeginRun("Lathe-X")
    \/ WritePair
    \/ BeginRival("Lathe-X")
    \/ WritePairRival
    \/ IngestOnce({LatheFile3})

SpecConcurrent == InitConcurrent /\ [][NextConcurrent]_vars

\* What a call computes for the pair (a, b) from the parts it fetched.
ComputedFrom(parts, a, b) ==
    LET p1 == PartMap(parts, a)
        p2 == PartMap(parts, b)
    IN  {ScorePair(p1, p2, key_order, asm_order) :
            key_order \in Orders(SharedKeys(p1, p2)),
            asm_order \in Orders(SharedAssemblies(p1, p2))}

\* The step is a write of the call r (r2 after the step): the pair it was
\* at then carries, in both directions, one value that this call computed,
\* and every other edge is as it was.
WrittenByOne(r, r2) ==
    (r.state = "running" /\ r2.written # r.written) =>
        LET a == r.ids[r.i]
            b == r.ids[r.j]
        IN  /\ compat'[<<a, b>>] \in ComputedFrom(r.parts, a, b)
            /\ compat'[<<b, a>>] = compat'[<<a, b>>]
            /\ \A p \in DOMAIN compat' \ {<<a, b>>, <<b, a>>} :
                 p \in DOMAIN compat /\ compat'[p] = compat[p]

\* C24: however the statements of two calls for the same product
\* interleave, whatever each call fetched and in whatever order, the two
\* edges of a pair carry identical fields in every state, and every change
\* of an edge is the write of one call, which sets both edges of its pair to
\* the value it computed: the last writer wins, no pair mixes two runs.
C24_LastWriterWins ==
    /\ [](\A p \in DOMAIN compat :
            /\ <<p[2], p[1]>> \in DOMAIN compat
            /\ compat[<<p[2], p[1]>>] = compat[p])
    /\ [][/\ WrittenByOne(run, run')
          /\ WrittenByOne(rival, rival')
          /\ compat' # compat => (run'.written # run.written
                                    \/ rival'.written # rival.written)]_vars

\* both calls are under way on different snapshots, in different part
\* orders, and a pair they both wrote carries the second call's value
C24_Witness ==
    /\ run.state = "running" /\ rival.state = "done"
    /\ run.parts[1].part_id # rival.parts[1].part_id
    /\ Len(run.parts) = 3 /\ Len(rival.parts) = 2
    /\ Len(run.written) >= 1 /\ Len(rival.written) >= 1
    /\ \E k \in 1..Len(run.written) :
         LET a == run.written[k][1]
             b == run.written[k][2]
         IN  /\ \E m \in 1..Len(rival.written) :
                  rival.written[m] \in {<<a, b>>, <<b, a>>}
             /\ compat[<<a, b>>] \notin ComputedFrom(run.parts, a, b)

(***************************************************************************)
(* Two products                                                            *)
(***************************************************************************)
ProductFiles == {LatheFile1, LatheFile2, MillFile}

NextProducts ==
    \/ Next
    \/ IngestOnce(ProductFiles)

SpecProducts == InitIngest /\ [][NextProducts]_vars

\* The products whose files declare the part.
DeclaredUnder(p) == {file.product : file \in {f \in ProductFiles : p \in FileIds(f.parts)}}

\* C25: a part ingested under one product only is not among the parts
\* fetched for another product, and a run for another product writes no
\* edge from or to it: the runs of two products write disjoint sets of
\* edges.
C25_DisjointProducts ==
    /\ \A product_name \in Products :
         \A p \in FetchedIds(product_name) : product_name \in DeclaredUnder(p)
    /\ run.state # "idle" =>
         \A k \in 1..Len(run.written) :
             /\ run.product \in DeclaredUnder(run.written[k][1])
             /\ run.product \in DeclaredUnder(run.written[k][2])

\* C26: every part ingested under a product, top-level or nested, whatever
\* its category, a missing or unmapped one included, is among the parts
\* fetched for that product, so the product's batch run and the rankings
\* against the product take it in.
C26_AllIngestedFetched ==
    \A p \in PartIds :
        part_nodes[p].exists =>
            \A product_name \in DeclaredUnder(p) : p \in FetchedIds(product_name)

(***************************************************************************)
(* Records of equal score                                                  *)
(***************************************************************************)
\* The place of the part among the rows the fetch of the last call returned.
FetchIndex(id) == CHOOSE n \in 1..Len(request.rows) : request.rows[n] = id

\* C27: in the returned list a record comes before every record of a lower
\* score, and records of equal score stand in the order in which the fetch
\* returned their parts; so the fetch order determines the list.
C27_StableSort ==
    request # NoRequest =>
        \A k, m \in 1..Len(ranking) :
            k < m =>
                \/ RLt(ranking[m].score, ranking[k].score)
                \/ /\ ranking[m].score = ranking[k].score
                   /\ FetchIndex(ranking[k].existing_part_id)
                        < FetchIndex(ranking[m].existing_part_id)

\* two parts of one score, fetched in the order P3, P2 and listed so
C27_Witness ==
    /\ request # NoRequest
    /\ \E k, m \in 1..Len(ranking) :
         /\ k < m
         /\ ranking[k].existing_part_id = "P3" /\ ranking[m].existing_part_id = "P2"
         /\ ranking[k].score = ranking[m].score
         /\ FetchIndex("P3") < FetchIndex("P2")

(***************************************************************************)
(* The metrics of (p1, p2) and of (p2, p1), in floating point              *)
(***************************************************************************)
FlNeg(x) == <<-x[1], x[2]>>
FlAbs(x) == <<Abs(x[1]), x[2]>>

\* max(x, y) of Python: y when y > x, else x
FlMax(x, y) == IF RLt(FlValue(x), FlValue(y)) THEN y ELSE x

\* _score_numeric on two finite floats
score_numeric_float(a, b) ==
    IF a[1] = 0 /\ b[1] = 0 THEN FlInt(1)
    ELSE IF a[1] = 0 \/ b[1] = 0 THEN FlInt(0)
    ELSE LET rel_diff == FlDiv(FlAbs(FlAdd(a, FlNeg(b))), FlMax(FlAbs(a), FlAbs(b)))
         IN  FlMax(FlInt(0), FlAdd(FlInt(1), FlNeg(rel_diff)))

\* The loop over the shared keys taken in the order `keys`; the numbers of
\* the parts scored here are finite integers.
RECURSIVE MechLoopFloat(_, _, _, _)
MechLoopFloat(p1, p2, keys, scores) ==
    IF keys = <<>> THEN scores
    ELSE
        LET key == Head(keys)
            v1 == p1.specs[key].value
            v2 == p2.specs[key].value
        IN  IF is_number(v1) /\ is_number(v2)
            THEN MechLoopFloat(p1, p2, Tail(keys),
                     Append(scores, score_numeric_float(FlInt(v1.n), FlInt(v2.n))))
            ELSE IF v1 = v2 /\ v1 # Null
            THEN MechLoopFloat(p1, p2, Tail(keys), Append(scores, FlInt(1)))
            ELSE MechLoopFloat(p1, p2, Tail(keys), scores)

\* sum(scores) over the first n scores: 0 + scores[1] + ... + scores[n]
RECURSIVE FlSum(_, _)
FlSum(scores, n) ==
    IF n = 0 THEN FlInt(0) ELSE FlAdd(FlSum(scores, n - 1), scores[n])

\* _mechanical_similarity in floating point; key_order is the order in which
\* the set shared_keys built by this call is iterated.
mechanical_similarity_float(p1, p2, key_order) ==
    LET scores == MechLoopFloat(p1, p2, key_order, <<>>)
    IN  IF scores = <<>> THEN FlInt(0)
        ELSE FlDiv(FlSum(scores, Len(scores)), FlInt(Len(scores)))

\* The three metrics of one call, as exact values of the floats returned.
MetricsFloat(p1, p2, key_order, asm_order) ==
    [mechanical |-> FlValue(mechanical_similarity_float(p1, p2, key_order)),
     semantic |-> FlValue(semantic_similarity_float(p1.embedding.vec, p2.embedding.vec)),
     hierarchy |-> hierarchy_similarity(p1, p2, asm_order).score]

\* One part with three numeric specs, and the parts it is scored against:
\* the same three keys, every value one of three.
OrderPart ==
    PartInfo("F1", "Tools", {SA},
             Spec1("height", Num(4), "mm") @@ Spec1("pitch", Num(1), "mm")
                 @@ Spec1("power", Num(2), "mm"),
             Emb(<<3, 4>>))

OrderValues == {3, 5, 10}

OrderParts ==
    { PartInfo("F2", "Mold", asm,
               Spec1("height", Num(h), "mm") @@ Spec1("pitch", Num(t), "mm")
                   @@ Spec1("power", Num(w), "mm"),
               emb) :
        h \in OrderValues, t \in OrderValues, w \in OrderValues,
        asm \in {{SA, MG}, {MG}}, emb \in {Emb(<<4, 3>>), NoEmbedding} }

\* The metrics of (p1, p2) and of (p2, p1).  Each call builds its own set of
\* shared keys and its own set of shared assemblies, and iterates it in the
\* order that set has.
ScoreBothOrders ==
    LET p1 == fsample.p1
        p2 == fsample.p2
    IN  /\ ~fsample.scored
        /\ \E keys_fwd \in Orders(SharedKeys(p1, p2)),
              keys_bwd \in Orders(SharedKeys(p2, p1)),
              asm_fwd \in Orders(SharedAssemblies(p1, p2)),
              asm_bwd \in Orders(SharedAssemblies(p2, p1)) :
             fsample' = [fsample EXCEPT
                            !.scored = TRUE,
                            !.keys_fwd = keys_fwd,
                            !.keys_bwd = keys_bwd,
                            !.fwd = MetricsFloat(p1, p2, keys_fwd, asm_fwd),
                            !.bwd = MetricsFloat(p2, p1, keys_bwd, asm_bwd)]
        /\ UNCHANGED <<store, run, request, ranking, rival, response, sample, msample>>

InitOrder ==
    /\ InitStore
    /\ part_nodes["P1"] = Absent
    /\ part_nodes["P2"] = MoldBlock[1]
    /\ part_nodes["P3"] = Absent
    /\ sample = NoSample
    /\ msample = NoMSample
    /\ \E p2 \in OrderParts :
         fsample = [NoFSample EXCEPT !.p1 = OrderPart, !.p2 = p2]

SpecOrder == InitOrder /\ [][ScoreBothOrders]_vars

\* C28: the mechanical, the semantic and the hierarchy score of (p, q) are
\* the scores of (q, p).
C28_ArgumentOrder ==
    fsample.scored =>
        /\ fsample.fwd.mechanical = fsample.bwd.mechanical
        /\ fsample.fwd.semantic = fsample.bwd.semantic
        /\ fsample.fwd.hierarchy = fsample.bwd.hierarchy

(***************************************************************************)
(* merge_and_trim of the retrieval command line                            *)
(***************************************************************************)
\* A result row of a vector search; its score is a number.
Row(part_id, text, score) == [part_id |-> part_id, text |-> text, score |-> score]

RowKey(r) == <<r.part_id, r.text>>

\* The two loops over rows_a and rows_b, as one pass over lst = rows_a + rows_b:
\* a row whose key was seen is skipped.
RECURSIVE MergeLoop(_, _, _)
MergeLoop(lst, seen, merged) ==
    IF lst = <<>> THEN merged
    ELSE LET r == Head(lst)
         IN  IF RowKey(r) \in seen THEN MergeLoop(Tail(lst), seen, merged)
             ELSE MergeLoop(Tail(lst), seen \cup {RowKey(r)}, Append(merged, r))

merge_and_trim(rows_a, rows_b, top_k) ==
    SliceTo(SortDesc(MergeLoop(rows_a \o rows_b, {}, <<>>)), top_k)

MergeRows ==
    { Row(id, text, score) :
        id \in {"P1", "P2"}, text \in {"mold block"},
        score \in {Rat(2, 10), Rat(9, 10)} }

MaxRows == 2

MergeTopKs == {1, 2, 3}

RowLists == UNION {[1..n -> MergeRows] : n \in 0..MaxRows}

\* ORDER BY score DESC of the queries
ScoreDescending(rows) ==
    \A i \in 1..Len(rows), j \in 1..Len(rows) :
        i < j => RLe(rows[j].score, rows[i].score)

MergeSample ==
    /\ ~msample.merged
    /\ msample' = [msample EXCEPT
                      !.merged = TRUE,
                      !.out = merge_and_trim(msample.rows_a, msample.rows_b,
                                             msample.top_k)]
    /\ UNCHANGED <<store, run, request, ranking, rival, response, sample, fsample>>

\* rows_a is the result of the chunk search, rows_b the result of the part
\* search followed by the result of the product search.
InitMerge ==
    /\ InitStore
    /\ part_nodes["P1"] = Absent
    /\ part_nodes["P2"] = MoldBlock[1]
    /\ part_nodes["P3"] = Absent
    /\ sample = NoSample
    /\ fsample = NoFSample
    /\ \E rows_a \in {l \in RowLists : ScoreDescending(l)}, rows_b \in RowLists,
          top_k \in MergeTopKs :
         msample = [NoMSample EXCEPT !.rows_a = rows_a, !.rows_b = rows_b,
                                     !.top_k = top_k]

SpecMerge == InitMerge /\ [][MergeSample]_vars

\* the rows of both input lists
InputRows(ms) == {ms.rows_a[i] : i \in 1..Len(ms.rows_a)}
                     \cup {ms.rows_b[i] : i \in 1..Len(ms.rows_b)}

\* C29: the list returned by merge_and_trim is sorted by score descending,
\* has at most top_k rows, no two of them with the same (part_id, text), and
\* every row in it has the highest score among the input rows of its
\* (part_id, text).
C29_MergeKeepsBest ==
    msample.merged =>
        LET out == msample.out
        IN  /\ ScoreDescending(out)
            /\ Len(out) <= msample.top_k
            /\ \A i \in 1..Len(out), j \in 1..Len(out) :
                 i # j => RowKey(out[i]) # RowKey(out[j])
            /\ \A i \in 1..Len(out) :
                 \A r \in InputRows(msample) :
                     RowKey(r) = RowKey(out[i]) => RLe(r.score, out[i].score)

(***************************************************************************)
(* GET /api/compat/product/{product_name}                                  *)
(***************************************************************************)
\* the order of the part_id strings
IdIndex == ("NEW_PART" :> 0) @@ ("P1" :> 1) @@ ("P2" :> 2) @@ ("P3" :> 3)

IdLess(a, b) == IdIndex[a] < IdIndex[b]

\* The matches of the two MATCH clauses: an assembly a of the product with
\* a part p in it, a COMPATIBLE_WITH relationship from p to q, an assembly
\* a2 of the product with q in it, and p.part_id < q.part_id.  Every part_id
\* is carried by one node here, as the ingestion leaves it.
ApiMatches(product_name) ==
    {mt \in ProductAssemblies(product_name) \X NodeIds \X NodeIds
              \X ProductAssemblies(product_name) :
        /\ part_nodes[mt[2]].exists
        /\ mt[1] \in belongs_to[mt[2]]
        /\ <<mt[2], mt[3]>> \in DOMAIN compat
        /\ part_nodes[mt[3]].exists
        /\ mt[4] \in belongs_to[mt[3]]
        /\ IdLess(mt[2], mt[3])}

\* The row returned for a match; the parts of the model carry no name.
ApiRow(mt) ==
    LET r == compat[<<mt[2], mt[3]>>]
    IN  [part_a_id |-> mt[2], part_b_id |-> mt[3], score |-> r.score,
         mechanical |-> r.mechanical, functional |-> r.functional,
         semantic |-> r.semantic, hierarchy |-> r.hierarchy,
         explanations |-> r.explanations]

\* how many matches return each row
ApiRowCounts(product_name) ==
    LET matches == ApiMatches(product_name)
    IN  [row \in {ApiRow(mt) : mt \in matches} |->
            Cardinality({mt \in matches : ApiRow(mt) = row})]

\* ORDER BY score DESC: the sequences of the rows still to return, counts
\* says how often each, rows of one score in any order.
RECURSIVE OrderedByScore(_)
OrderedByScore(counts) ==
    LET left == {row \in DOMAIN counts : counts[row] > 0}
        top == {row \in left : \A other \in left : RLe(other.score, row.score)}
    IN  IF left = {} THEN {<<>>}
        ELSE UNION {{<<row>> \o rest :
                        rest \in OrderedByScore([counts EXCEPT ![row] = @ - 1])} :
                    row \in top}

DefaultLimit == 200

ApiLimits == {1, 3, DefaultLimit}

api_compat_for_product(product_name, limit) ==
    /\ \E rows \in OrderedByScore(ApiRowCounts(product_name)) :
         response' = [product_name |-> product_name, limit |-> limit,
                      pairs |-> SubSeq(rows, 1, Min(limit, Len(rows)))]
    /\ UNCHANGED <<store, run, rival, request, ranking, samples>>

\* One batch run, and requests at any time before, during and after it.
NextApi ==
    \/ run.state = "idle" /\ \E product_name \in Products : BeginRun(product_name)
    \/ WritePair
    \/ \E product_name \in Products, limit \in ApiLimits :
         api_compat_for_product(product_name, limit)

SpecApi == Init /\ [][NextApi]_vars

\* C30: the response lists every unordered pair of parts at most once, in
\* the direction part_a_id < part_b_id.
C30_EachPairOnce ==
    LET pairs == response.pairs
    IN  /\ \A i \in 1..Len(pairs) : IdLess(pairs[i].part_a_id, pairs[i].part_b_id)
        /\ \A i \in 1..Len(pairs), j \in 1..Len(pairs) :
             i # j => {pairs[i].part_a_id, pairs[i].part_b_id}
                          # {pairs[j].part_a_id, pairs[j].part_b_id}

====
